---------------------------- MODULE Spec2Model ----------------------------
(***************************************************************************)
(* PennylaneConverter (pennylane_snowflurry/pennylane_converter.py):       *)
(* translation of a PennyLane circuit into a Snowflurry circuit and the    *)
(* dispatch of its measurements.                                           *)
(*                                                                         *)
(* The Julia side is modelled by what the converter does to it:            *)
(*   Main.sf_circuit     a process-wide circuit {qubit_count, bit_count,   *)
(*                       instructions}; push! appends one instruction;     *)
(*   Main.currentClient  a process-wide client handle or None;             *)
(*   submit_circuit / get_status / get_result  a remote job whose status   *)
(*                       the environment moves from pending to a terminal  *)
(*                       one.                                              *)
(* Parameter values are opaque to the converter (they are only formatted   *)
(* into the instruction text), so the i-th parameter of an operation is    *)
(* the symbolic value P(i); wires are integers because the code does       *)
(* arithmetic on them.                                                     *)
(***************************************************************************)
EXTENDS Integers, Sequences, FiniteSets, TLC

VARIABLES
    circuit,        \* self.circuit: [operations, measurements]
    credentials,    \* host, user, access_token, project_id given to __init__
    currentClient,  \* Main.currentClient
    sf_circuit,     \* Main.sf_circuit
    diagnostics,    \* what convert_circuit printed, in order
    pc,             \* position of the caller
    k,              \* index of the measurement measure() handles next
    results,        \* outcomes of the measure() calls made so far
    status,         \* measure()'s local variable status
    remote,         \* status of the submitted job on the remote service
    lastRun,        \* the last circuit handed to the backend, and by whom
    ret,            \* value returned by the last call
    origin,         \* for each emitted instruction, the index of its source operation
    log,            \* Readout Manager calls / simulate() calls made so far
    converters,     \* the converter objects constructed so far, by name
    calls           \* calls made to the remote service in this simulate()

vars == <<circuit, credentials, currentClient, sf_circuit, diagnostics, pc, k,
          results, status, remote, lastRun, ret, origin, log, converters,
          calls>>

---------------------------------------------------------------------------
(* Bounds *)

\* longest source circuit (operations)
MaxOps == 2
\* longest measurement list of one circuit
MaxMeas == 2
\* most Readout Manager calls made in a row on one circuit
MaxCalls == 3

\* wire labels a source circuit may use (Toffoli, the widest templated gate,
\* needs three)
Wires == {0, 1, 2}

---------------------------------------------------------------------------
(* Values *)

None == [none |-> TRUE]

\* the i-th parameter of an operation / a wire index
P(i) == [t |-> "param", v |-> i]
W(i) == [t |-> "wire", v |-> i]

Range(s) == {s[i] : i \in DOMAIN s}

RECURSIVE SeqsUpTo(_, _)
SeqsUpTo(S, n) ==
    IF n = 0 THEN {<<>>}
    ELSE LET shorter == SeqsUpTo(S, n - 1)
         IN  shorter \cup {Append(s, e) : s \in {t \in shorter : Len(t) = n - 1}, e \in S}

\* the sequences of n distinct elements of S
InjSeqs(S, n) == {s \in [1..n -> S] : \A i, j \in 1..n : i # j => s[i] # s[j]}

---------------------------------------------------------------------------
(* Operation Mapping Table *)

Tmpl(fn, slots) == [fn |-> fn, slots |-> slots]

NotImplementedError == [fn |-> "NotImplementedError", slots |-> <<>>]

\* A template "f({a},{b})" is the function text f and the slot numbers a, b
\* in the order they appear; str.format puts parameters[a], parameters[b]
\* there (0-based).  "controlled(rotation_x({1},{0}),{1})" has three slots.
SNOWFLURRY_OPERATION_MAP ==
    ("PauliX" :> Tmpl("sigma_x", <<0>>)) @@
    ("PauliY" :> Tmpl("sigma_y", <<0>>)) @@
    ("PauliZ" :> Tmpl("sigma_z", <<0>>)) @@
    ("Hadamard" :> Tmpl("hadamard", <<0>>)) @@
    ("CNOT" :> Tmpl("control_x", <<0, 1>>)) @@
    ("CZ" :> Tmpl("control_z", <<0, 1>>)) @@
    ("SWAP" :> Tmpl("swap", <<0, 1>>)) @@
    ("ISWAP" :> Tmpl("iswap", <<0, 1>>)) @@
    ("RX" :> Tmpl("rotation_x", <<1, 0>>)) @@
    ("RY" :> Tmpl("rotation_y", <<1, 0>>)) @@
    ("RZ" :> Tmpl("rotation_z", <<1, 0>>)) @@
    ("Identity" :> Tmpl("identity_gate", <<0>>)) @@
    ("CSWAP" :> NotImplementedError) @@
    ("CRX" :> Tmpl("controlled(rotation_x", <<1, 0, 1>>)) @@
    ("CRY" :> NotImplementedError) @@
    ("CRZ" :> NotImplementedError) @@
    ("PhaseShift" :> Tmpl("phase_shift", <<1, 0>>)) @@
    ("QubitStateVector" :> NotImplementedError) @@
    ("StatePrep" :> NotImplementedError) @@
    ("Toffoli" :> Tmpl("toffoli", <<0, 1, 2>>)) @@
    ("QubitUnitary" :> NotImplementedError) @@
    ("U1" :> NotImplementedError) @@
    ("U2" :> NotImplementedError) @@
    ("U3" :> Tmpl("universal", <<3, 0, 1, 2>>)) @@
    ("IsingZZ" :> NotImplementedError) @@
    ("IsingYY" :> NotImplementedError) @@
    ("IsingXX" :> NotImplementedError) @@
    ("T" :> Tmpl("pi_8", <<0>>)) @@
    ("Rot" :> Tmpl("rotation", <<3, 0, 1>>)) @@
    ("QFT" :> NotImplementedError)

\* gate names absent from the table: a plain gate and a state preparation
UnknownNames == {"S", "BasisState"}

GateNames == DOMAIN SNOWFLURRY_OPERATION_MAP \cup UnknownNames

HasTemplate(name) ==
    /\ name \in DOMAIN SNOWFLURRY_OPERATION_MAP
    /\ SNOWFLURRY_OPERATION_MAP[name] # NotImplementedError

\* isinstance(op, qml.operation.StatePrepBase)
IsStatePrepBase(name) == name \in {"StatePrep", "QubitStateVector", "BasisState"}

\* number of parameters and of wires of the PennyLane operation of each name
\* (operations of variable width are taken on one wire)
OpShape(name) ==
    CASE name \in {"PauliX", "PauliY", "PauliZ", "Hadamard", "Identity", "T", "S", "QFT"}
            -> [np |-> 0, nw |-> 1]
      [] name \in {"CNOT", "CZ", "SWAP", "ISWAP"} -> [np |-> 0, nw |-> 2]
      [] name \in {"RX", "RY", "RZ", "PhaseShift", "U1", "QubitStateVector",
                   "StatePrep", "QubitUnitary", "BasisState"}
            -> [np |-> 1, nw |-> 1]
      [] name \in {"CRX", "CRY", "CRZ", "IsingZZ", "IsingYY", "IsingXX"}
            -> [np |-> 1, nw |-> 2]
      [] name \in {"Toffoli", "CSWAP"} -> [np |-> 0, nw |-> 3]
      [] name = "U2" -> [np |-> 2, nw |-> 1]
      [] name \in {"U3", "Rot"} -> [np |-> 3, nw |-> 1]

Op(name, wires) ==
    [name |-> name,
     parameters |-> [i \in 1..OpShape(name).np |-> P(i)],
     wires |-> wires]

\* The operations a source circuit is drawn from.  The converter reads only
\* the name of an operation it skips, so those are taken on their first wires.
Operations ==
    UNION {{Op(name, ws) : ws \in IF HasTemplate(name)
                                   THEN InjSeqs(Wires, OpShape(name).nw)
                                   ELSE {[i \in 1..OpShape(name).nw |-> i - 1]}}
           : name \in GateNames}

---------------------------------------------------------------------------
(* Source circuits *)

RECURSIVE AllWires(_)
\* Wires.all_wires: the distinct wires of a list of wire lists, in order of
\* first appearance
AllWires(wireLists) ==
    IF wireLists = <<>> THEN <<>>
    ELSE LET before == AllWires(SubSeq(wireLists, 1, Len(wireLists) - 1))
             last == wireLists[Len(wireLists)]
         IN  before \o SelectSeq(last, LAMBDA w : w \notin Range(before))

\* circuit.op_wires
OpWires(c) == AllWires([i \in 1..Len(c.operations) |-> c.operations[i].wires])

MeasWires(c) == AllWires([i \in 1..Len(c.measurements) |-> c.measurements[i].wires])

\* The circuits map_to_standard_wires returns unchanged: the operations use
\* the wires 0..n-1 and the measurements add n..n+m-1.  Source circuits are
\* drawn from these, so that a wire of the source is the wire the converter
\* sees.
IsStandardWired(c) ==
    LET n == Len(OpWires(c))
        measOnly == Range(MeasWires(c)) \ Range(OpWires(c))
    IN  /\ Range(OpWires(c)) = 0..(n - 1)
        /\ measOnly = n..(n + Cardinality(measOnly) - 1)

\* circuit.map_to_standard_wires() on a circuit in standard wire order
MapToStandardWires(c) == c

---------------------------------------------------------------------------
(* Target circuit *)

Gate(fn, args) == [kind |-> "Gate", fn |-> fn, args |-> args]

\* readout(connected_qubit, destination_bit)
Readout(q, b) == [kind |-> "Readout", connected_qubit |-> q, destination_bit |-> b]

\* Main.QuantumCircuit(qubit_count=n): bit_count defaults to qubit_count
QuantumCircuit(qubit_count, bit_count, instructions) ==
    [qubit_count |-> qubit_count, bit_count |-> bit_count, instructions |-> instructions]

\* push!(sf_circuit, inst)
Push(c, inst) == [c EXCEPT !.instructions = Append(@, inst)]

IsReadout(inst) == inst.kind = "Readout"

Readouts(instructions) == SelectSeq(instructions, IsReadout)

NonReadouts(instructions) == SelectSeq(instructions, LAMBDA inst : ~IsReadout(inst))

\* the wire indices among the arguments of a gate instruction, in order
WireArgs(args) ==
    LET ws == SelectSeq(args, LAMBDA a : a.t = "wire")
    IN  [i \in 1..Len(ws) |-> ws[i].v]

---------------------------------------------------------------------------
(* Circuit Translator *)

\* parameters = op.parameters + [i + 1 for i in op.wires.tolist()]
FormatParameters(op) == op.parameters \o [i \in 1..Len(op.wires) |-> W(op.wires[i] + 1)]

\* SNOWFLURRY_OPERATION_MAP[op.name].format(*parameters), pushed as a gate
FormatGate(op) ==
    LET tmpl == SNOWFLURRY_OPERATION_MAP[op.name]
        parameters == FormatParameters(op)
    IN  Gate(tmpl.fn, [i \in 1..Len(tmpl.slots) |-> parameters[tmpl.slots[i] + 1]])

\* prep: the first operation is a state preparation
HasPrep(c) == Len(c.operations) > 0 /\ IsStatePrepBase(c.operations[1].name)

\* Mutant of FirstTranslated: the slice operations[1:] taken whether or not
\* the circuit starts with a state preparation.
FirstTranslatedAlwaysSkips(c) == 2

\* index of the first operation the loop visits: operations[bool(prep):]
FirstTranslated(c) == IF HasPrep(c) THEN 2 ELSE 1

RECURSIVE ConvertLoop(_, _, _)
\* The loop of convert_circuit over operations[i..]: acc holds the target
\* circuit, the diagnostics printed and the origin of each instruction.
ConvertLoop(ops, i, acc) ==
    IF i > Len(ops) THEN acc
    ELSE LET op == ops[i]
         IN  IF op.name \in DOMAIN SNOWFLURRY_OPERATION_MAP
             THEN IF SNOWFLURRY_OPERATION_MAP[op.name] = NotImplementedError
                  THEN ConvertLoop(ops, i + 1,
                         [acc EXCEPT !.diagnostics =
                            Append(@, [msg |-> "is not implemented yet", name |-> op.name])])
                  ELSE ConvertLoop(ops, i + 1,
                         [acc EXCEPT !.sf_circuit = Push(@, FormatGate(op)),
                                     !.origin = Append(@, i)])
             ELSE ConvertLoop(ops, i + 1,
                    [acc EXCEPT !.diagnostics =
                       Append(@, [msg |-> "is not supported by this device", name |-> op.name])])

\* Mutant of NewTargetCircuit: the circuit is created only when the session
\* holds none yet, and an existing one is kept with its instructions.
KeptTargetCircuit(wires_nb) ==
    IF sf_circuit = None THEN QuantumCircuit(wires_nb, wires_nb, <<>>) ELSE sf_circuit

\* Main.sf_circuit = Main.QuantumCircuit(qubit_count=wires_nb): a new, empty
\* circuit (bit_count defaults to qubit_count)
NewTargetCircuit(wires_nb) == QuantumCircuit(wires_nb, wires_nb, <<>>)

\* convert_circuit(self.circuit)
ConvertCircuit(c) ==
    LET wires_nb == Len(OpWires(c))
    IN  ConvertLoop(MapToStandardWires(c).operations, FirstTranslated(c),
                    [sf_circuit |-> NewTargetCircuit(wires_nb),
                     diagnostics |-> <<>>,
                     origin |-> <<>>])

---------------------------------------------------------------------------
(* Instruction Introspection Layer *)

\* One entry of get_circuit_as_dictionary: str(inst) holds "Gate Object" for
\* a gate and "Readout" for a readout.
AsDictionary(inst) ==
    IF IsReadout(inst)
    THEN [gate |-> "Readout", connected_qubits |-> <<inst.connected_qubit>>]
    ELSE [gate |-> inst.fn, connected_qubits |-> WireArgs(inst.args)]

\* an instruction of the backend whose str() the two tests of
\* get_circuit_as_dictionary do not classify: it holds neither "Gate Object"
\* nor "Readout", or the pattern for the gate's name does not match
Unclassified == [kind |-> "Other"]

\* op_data before its first assignment
Unbound == [unbound |-> TRUE]

\* The try block on one instruction: op_data is assigned for a gate and for
\* a readout; otherwise (no test matches, or the except branch prints) it
\* keeps what the previous iteration left.
Classify(inst, op_data) ==
    IF inst.kind \in {"Gate", "Readout"} THEN AsDictionary(inst) ELSE op_data

RECURSIVE IntrospectLoop(_, _, _, _)
\* The loop of get_circuit_as_dictionary from instruction i on:
\* ops.append(op_data) raises UnboundLocalError while op_data was never
\* assigned.
IntrospectLoop(instructions, i, op_data, ops) ==
    IF i > Len(instructions) THEN [ops |-> ops, raised |-> FALSE]
    ELSE LET data == Classify(instructions[i], op_data)
         IN  IF data = Unbound
             THEN [ops |-> ops, raised |-> TRUE]
             ELSE IntrospectLoop(instructions, i + 1, data, Append(ops, data))

\* get_circuit_as_dictionary() of the circuit c: the list it returns
GetCircuitAsDictionary(c) == IntrospectLoop(c.instructions, 1, Unbound, <<>>).ops

---------------------------------------------------------------------------
(* Readout Manager *)

\* has_readout()
HasReadout(c) == \E op \in Range(GetCircuitAsDictionary(c)) : op.gate = "Readout"

\* remove_readouts(): new_ops is computed and not used; the new circuit is
\* built from Main.sf_circuit.instructions
RemoveReadouts(c) ==
    LET ops == GetCircuitAsDictionary(c)
        new_ops == SelectSeq(ops, LAMBDA op : op.gate # "Readout")
    IN  QuantumCircuit(c.qubit_count, c.bit_count, c.instructions)

\* Python's ==  between a list and an int: never equal
PyListEqualsInt(list, n) == FALSE

\* the loop of apply_single_readout returns early
ReadoutAlreadyApplied(c, wire) ==
    \E op \in Range(GetCircuitAsDictionary(c)) :
        /\ op.gate = "Readout"
        /\ PyListEqualsInt(op.connected_qubits, wire - 1)

\* apply_single_readout(wire)
ApplySingleReadout(c, wire) ==
    IF ReadoutAlreadyApplied(c, wire) THEN c
    ELSE Push(c, Readout(wire + 1, wire + 1))

RECURSIVE ApplyAllReadouts(_, _)
\* for wire in range(wires_nb): push!(sf_circuit, readout(wire + 1, wire + 1))
ApplyAllReadouts(c, wires_nb) ==
    IF wires_nb = 0 THEN c
    ELSE Push(ApplyAllReadouts(c, wires_nb - 1), Readout(wires_nb, wires_nb))

\* Mutant of ApplyReadouts: the readouts are pushed onto a new circuit of
\* the same size, which replaces the current one and its gates.
ApplyReadoutsOnNewCircuit(c, wires_nb, obs) ==
    LET fresh == QuantumCircuit(c.qubit_count, c.bit_count, <<>>)
    IN  IF obs = None THEN ApplyAllReadouts(fresh, wires_nb)
        ELSE ApplySingleReadout(fresh, obs.wires[1])

\* apply_readouts(wires_nb, obs)
ApplyReadouts(c, wires_nb, obs) ==
    IF obs = None THEN ApplyAllReadouts(c, wires_nb)
    ELSE ApplySingleReadout(c, obs.wires[1])

---------------------------------------------------------------------------
(* Measurement requests *)

\* an observable: its wires, and whether it has a matrix representation
Obs(wires, has_matrix) == [wires |-> wires, has_matrix |-> has_matrix]

\* observables on one wire or on two
Observables == {Obs(ws, m) : ws \in InjSeqs(Wires, 1) \cup {<<0, 1>>}, m \in BOOLEAN}

\* A measurement process mp: kind names its class (CountsMP, SampleMP,
\* ProbabilityMP, ExpectationMP, StateMP, VarianceMP, ClassicalShadowMP),
\* mp.obs its observable or None, mp.wires its wires.
Mp(kind, obs, wires) == [kind |-> kind, obs |-> obs, wires |-> wires]

MpOn(kind, obs) == Mp(kind, obs, IF obs = None THEN <<>> ELSE obs.wires)

\* the measurement requests a circuit is drawn with
Measurements ==
    {MpOn("Counts", o) : o \in {None, Obs(<<0>>, TRUE), Obs(<<1>>, TRUE)}} \cup
    {MpOn("Sample", o) : o \in {None, Obs(<<0>>, TRUE)}} \cup
    {Mp("Probs", None, ws) : ws \in {<<>>, <<0>>}} \cup
    {MpOn("Expval", o) : o \in {None, Obs(<<0>>, TRUE), Obs(<<0>>, FALSE)}} \cup
    {Mp("State", None, <<>>),
     MpOn("Var", Obs(<<0>>, TRUE)),
     Mp("Shadow", None, <<0>>)}

\* isinstance(mp, StateMeasurement): ProbabilityMP, ExpectationMP, StateMP
\* and VarianceMP derive from StateMeasurement; CountsMP, SampleMP and
\* ClassicalShadowMP do not
IsStateMeasurement(mp) == mp.kind \in {"Probs", "Expval", "State", "Var"}

\* a measurement that can run on hardware
IsShotMeasurement(mp) == mp.kind \in {"Counts", "Sample"}

---------------------------------------------------------------------------
(* Measurement Dispatcher *)

Run(fn, by, c) == [fn |-> fn, by |-> by, circuit |-> c]

Outcome(value, st, circuitID) == [value |-> value, status |-> st, circuitID |-> circuitID]

\* Mutant of PreparesReadouts: the Probabilities handler prepares the circuit
\* the way the Counts and Sample handlers do.
PreparesReadoutsAlsoProbs(mp, client) ==
    (IsShotMeasurement(mp) \/ mp.kind = "Probs") /\ client = None

\* the kinds whose handler calls apply_readouts before executing: Counts and
\* Sample when no client is configured
PreparesReadouts(mp, client) == IsShotMeasurement(mp) /\ client = None

\* the kinds whose handler submits the circuit to the remote service
SubmitsRemotely(mp, client) == IsShotMeasurement(mp) /\ client # None

\* the value a local Counts or Sample handler returns
ShotsValue(mp) == IF mp.kind = "Counts" THEN "counts" ELSE "samples"

\* The State handler: strips the readouts if has_readout(), runs the
\* statevector simulation and returns the amplitudes.
StateHandler(mp, c) ==
    LET simulated == IF HasReadout(c) THEN RemoveReadouts(c) ELSE c
    IN  [value |-> "state", lastRun |-> Run("simulate", mp.kind, simulated)]

\* measure() from "if isinstance(mp, ProbabilityMP)" on: the part a Counts
\* or Sample handler that did not return falls through to.  run is the last
\* backend execution so far.
MeasureTail(mp, c, run) ==
    IF mp.kind = "Probs"
    THEN [value |-> "probs", lastRun |-> Run("get_measurement_probabilities", mp.kind, c)]
    ELSE IF mp.kind = "Expval" /\ mp.obs # None /\ mp.obs.has_matrix
    THEN [value |-> "expval", lastRun |-> Run("simulate", mp.kind, c)]
    ELSE IF IsStateMeasurement(mp)
    THEN StateHandler(mp, c)
    ELSE [value |-> "NotImplementedError", lastRun |-> run]

\* Mutant of PollExits: the loop without its break on "failed".
PollExitsOnSuccessOnly(st) == st = "succeeded"

\* the polling loop is left: status is "succeeded" (loop condition) or
\* "failed" (break)
PollExits(st) == st \in {"succeeded", "failed"}

\* Mutant of FetchesResult: the result is fetched whenever the loop was
\* left, on "failed" as on "succeeded".
FetchesResultAfterLoop(st) == st \in {"succeeded", "failed"}

\* if status == "succeeded": return Main.get_result(circuitID)
FetchesResult(st) == st = "succeeded"

\* a call to the remote service made while handling measurement number mp:
\* submit_circuit, get_status (with the status it returned) or get_result
RemoteCall(call, mp, st) == [call |-> call, mp |-> mp, status |-> st]

\* status = Main.get_status(circuitID) returned st: the query is added to the
\* calls made; queries in a row that return the same status are kept as one.
Queried(cs, mp, st) ==
    IF cs # <<>> /\ cs[Len(cs)] = RemoteCall("get_status", mp, st)
    THEN cs
    ELSE Append(cs, RemoteCall("get_status", mp, st))

\* After the polling loop: get_result on "succeeded", otherwise the handler
\* does not return and measure() goes on with the checks that follow.
AfterPolling(mp, c, run, st) ==
    IF FetchesResult(st)
    THEN [value |-> "remote_result", lastRun |-> run]
    ELSE MeasureTail(mp, c, run)

---------------------------------------------------------------------------
(* convert_circuit called on its own *)

\* the tape before any operation is recorded on it
EmptyCircuit == [operations |-> <<>>, measurements |-> <<>>]

InitConvert ==
    /\ circuit = EmptyCircuit
    /\ credentials = None
    /\ currentClient = None
    /\ sf_circuit = None
    /\ diagnostics = <<>>
    /\ pc = "recording"
    /\ k = 0
    /\ results = <<>>
    /\ status = "none"
    /\ remote = "none"
    /\ lastRun = None
    /\ ret = None
    /\ origin = <<>>
    /\ log = <<>>
    /\ converters = None
    /\ calls = <<>>

\* the caller records one more operation on the circuit it will hand over
RecordOperation(op) ==
    /\ pc = "recording"
    /\ Len(circuit.operations) < MaxOps
    /\ circuit' = [circuit EXCEPT !.operations = Append(@, op)]
    /\ UNCHANGED <<calls, converters, credentials, currentClient, sf_circuit, diagnostics,
                   pc, k, results, status, remote, lastRun, ret, origin, log>>

\* PennylaneConverter(circuit).convert_circuit(circuit)
Convert ==
    /\ pc = "recording"
    /\ IsStandardWired(circuit)
    /\ LET out == ConvertCircuit(circuit)
       IN  /\ sf_circuit' = out.sf_circuit
           /\ diagnostics' = out.diagnostics
           /\ origin' = out.origin
           /\ ret' = out.sf_circuit
    /\ pc' = "converted"
    /\ UNCHANGED <<calls, converters, circuit, credentials, currentClient, k, results, status, remote,
                   lastRun, log>>

NextConvert ==
    \/ \E op \in Operations : RecordOperation(op)
    \/ Convert

SpecConvert == InitConvert /\ [][NextConvert]_vars

---------------------------------------------------------------------------
(* The Readout Manager called on a translated circuit *)

ReadoutSourceCircuits ==
    {[operations |-> ops, measurements |-> <<>>] :
        ops \in {<<>>,
                 <<Op("Hadamard", <<0>>)>>,
                 <<Op("Hadamard", <<0>>), Op("CNOT", <<0, 1>>)>>,
                 <<Op("RX", <<1>>), Op("Toffoli", <<0, 1, 2>>)>>}}

InitReadout ==
    /\ circuit \in ReadoutSourceCircuits
    /\ credentials = None
    /\ currentClient = None
    /\ sf_circuit = ConvertCircuit(circuit).sf_circuit
    /\ diagnostics = ConvertCircuit(circuit).diagnostics
    /\ pc = "converted"
    /\ k = 0
    /\ results = <<>>
    /\ status = "none"
    /\ remote = "none"
    /\ lastRun = None
    /\ ret = None
    /\ origin = ConvertCircuit(circuit).origin
    /\ log = <<>>
    /\ converters = None
    /\ calls = <<>>

Call(name, arg) == [call |-> name, arg |-> arg]

ReadoutFrame ==
    UNCHANGED <<calls, converters, circuit, credentials, currentClient, diagnostics, pc, k, results,
                status, remote, lastRun, origin>>

\* converter.apply_single_readout(wire)
CallApplySingleReadout(wire) ==
    /\ pc = "converted"
    /\ Len(log) < MaxCalls
    /\ sf_circuit' = ApplySingleReadout(sf_circuit, wire)
    /\ ret' = None
    /\ log' = Append(log, Call("apply_single_readout", W(wire)))
    /\ ReadoutFrame

\* converter.apply_readouts(len(circuit.op_wires), obs)
CallApplyReadouts(obs) ==
    /\ pc = "converted"
    /\ Len(log) < MaxCalls
    /\ sf_circuit' = ApplyReadouts(sf_circuit, Len(OpWires(circuit)), obs)
    /\ ret' = None
    /\ log' = Append(log, Call("apply_readouts", obs))
    /\ ReadoutFrame

\* converter.remove_readouts()
CallRemoveReadouts ==
    /\ pc = "converted"
    /\ Len(log) < MaxCalls
    /\ ret' = RemoveReadouts(sf_circuit)
    /\ log' = Append(log, Call("remove_readouts", None))
    /\ UNCHANGED sf_circuit
    /\ ReadoutFrame

\* converter.has_readout()
CallHasReadout ==
    /\ pc = "converted"
    /\ Len(log) < MaxCalls
    /\ ret' = [value |-> HasReadout(sf_circuit)]
    /\ log' = Append(log, Call("has_readout", None))
    /\ UNCHANGED sf_circuit
    /\ ReadoutFrame

NextReadout ==
    \/ \E wire \in Wires : CallApplySingleReadout(wire)
    \/ \E obs \in Observables \cup {None} : CallApplyReadouts(obs)
    \/ CallRemoveReadouts
    \/ CallHasReadout

SpecReadout == InitReadout /\ [][NextReadout]_vars

---------------------------------------------------------------------------
(* simulate() *)

CredentialFields == {"host", "user", "access_token", "project_id"}

\* the handle Main.Eval("Client(...)") is taken to return
Client == [client |-> TRUE]

SimOperations ==
    {<<Op("Hadamard", <<0>>)>>,
     <<Op("Hadamard", <<0>>), Op("CNOT", <<0, 1>>)>>,
     <<Op("StatePrep", <<0>>), Op("PauliX", <<1>>)>>}

SimCircuits ==
    {c \in {[operations |-> ops, measurements |-> ms] :
              ops \in SimOperations, ms \in SeqsUpTo(Measurements, MaxMeas)} :
        IsStandardWired(c)}

Init ==
    /\ circuit \in SimCircuits
    /\ credentials = None
    /\ currentClient = None
    /\ sf_circuit = None
    /\ diagnostics = <<>>
    /\ pc = "new"
    /\ k = 0
    /\ results = <<>>
    /\ status = "none"
    /\ remote = "none"
    /\ lastRun = None
    /\ ret = None
    /\ origin = <<>>
    /\ log = <<>>
    /\ converters = None
    /\ calls = <<>>

\* Mutant of RemoteEnabled: the test the module's note describes ("if host,
\* user, access_token are filled"), without project_id.
RemoteEnabledWithoutProject(creds) ==
    \A f \in {"host", "user", "access_token"} : Len(creds[f]) # 0

\* the condition of __init__: all four credentials are non-empty
RemoteEnabled(creds) == \A f \in CredentialFields : Len(creds[f]) # 0

\* what __init__ stores in Main.currentClient
ClientFor(creds) == IF RemoteEnabled(creds) THEN Client ELSE None

\* PennylaneConverter(circuit, host=..., user=..., access_token=..., project_id=...)
Construct(creds) ==
    /\ pc = "new"
    /\ credentials' = creds
    /\ currentClient' = ClientFor(creds)
    /\ pc' = "constructed"
    /\ UNCHANGED <<calls, converters, circuit, sf_circuit, diagnostics, k, results, status, remote,
                   lastRun, ret, origin, log>>

\* simulate(): convert_circuit, then measure_final_state up to its first
\* measure() call
Simulate ==
    /\ pc = "constructed"
    /\ LET out == ConvertCircuit(circuit)
       IN  /\ sf_circuit' = out.sf_circuit
           /\ diagnostics' = out.diagnostics
           /\ origin' = out.origin
    /\ pc' = "measure"
    /\ k' = 1
    /\ results' = <<>>
    /\ UNCHANGED <<calls, converters, circuit, credentials, currentClient, status, remote, lastRun,
                   ret, log>>

\* the measurement measure() is called on next
Current == MapToStandardWires(circuit).measurements[k]

Measuring == pc = "measure" /\ k <= Len(circuit.measurements)

\* measure(mp, sf_circuit, shots) of a measurement that is executed locally:
\* the whole call
MeasureLocal ==
    /\ Measuring
    /\ ~SubmitsRemotely(Current, currentClient)
    /\ IF PreparesReadouts(Current, currentClient)
       THEN LET prepared == ApplyReadouts(sf_circuit, Len(OpWires(circuit)), Current.obs)
            IN  /\ sf_circuit' = prepared
                /\ lastRun' = Run("simulate_shots", Current.kind, prepared)
                /\ results' = Append(results, Outcome(ShotsValue(Current), "none", 0))
       ELSE LET out == MeasureTail(Current, sf_circuit, lastRun)
            IN  /\ sf_circuit' = sf_circuit
                /\ lastRun' = out.lastRun
                /\ results' = Append(results, Outcome(out.value, "none", 0))
    /\ k' = k + 1
    /\ UNCHANGED <<calls, converters, circuit, credentials, currentClient, diagnostics, pc, status,
                   remote, ret, origin, log>>

\* measure() of a Counts or Sample measurement with a client: submit_circuit
Submit ==
    /\ Measuring
    /\ SubmitsRemotely(Current, currentClient)
    /\ remote' = "pending"
    /\ lastRun' = Run("submit_circuit", Current.kind, sf_circuit)
    /\ calls' = Append(calls, RemoteCall("submit_circuit", k, "none"))
    /\ pc' = "submitted"
    /\ UNCHANGED <<converters, circuit, credentials, currentClient, sf_circuit, diagnostics, k,
                   results, status, ret, origin, log>>

\* the remote job reaches a terminal status, and keeps it
RemoteSettle ==
    /\ remote = "pending"
    /\ remote' \in {"succeeded", "failed"}
    /\ UNCHANGED <<calls, converters, circuit, credentials, currentClient, sf_circuit, diagnostics, pc,
                   k, results, status, lastRun, ret, origin, log>>

\* measure() returns or falls through after the polling loop with status st
FinishRemote(st) ==
    LET out == AfterPolling(Current, sf_circuit, lastRun, st)
        queried == Queried(calls, k, st)
    IN  /\ results' = Append(results, Outcome(out.value, st, k))
        /\ calls' = IF FetchesResult(st)
                    THEN Append(queried, RemoteCall("get_result", k, "none"))
                    ELSE queried
        /\ lastRun' = out.lastRun
        /\ k' = k + 1
        /\ pc' = "measure"
        /\ status' = "none"
        /\ remote' = "none"

\* status = Main.get_status(circuitID) before the loop: "succeeded" skips the
\* loop, anything else enters it
FirstStatus ==
    /\ pc = "submitted"
    /\ IF remote = "succeeded"
       THEN FinishRemote(remote)
       ELSE /\ status' = remote
            /\ pc' = "polling"
            /\ calls' = Queried(calls, k, remote)
            /\ UNCHANGED <<results, lastRun, k, remote>>
    /\ UNCHANGED <<converters, circuit, credentials, currentClient, sf_circuit, diagnostics,
                   ret, origin, log>>

\* one round of the loop: sleep, status = Main.get_status(circuitID), break
\* on "failed", loop condition
Poll ==
    /\ pc = "polling"
    /\ IF PollExits(remote)
       THEN FinishRemote(remote)
       ELSE /\ status' = remote
            /\ calls' = Queried(calls, k, remote)
            /\ UNCHANGED <<results, lastRun, k, pc, remote>>
    /\ UNCHANGED <<converters, circuit, credentials, currentClient, sf_circuit, diagnostics,
                   ret, origin, log>>

\* measure_final_state returns: the result itself for one measurement, a
\* tuple otherwise
Return ==
    /\ pc = "measure"
    /\ k > Len(circuit.measurements)
    /\ ret' = [single |-> Len(circuit.measurements) = 1, values |-> results]
    /\ pc' = "done"
    /\ UNCHANGED <<calls, converters, circuit, credentials, currentClient, sf_circuit, diagnostics, k,
                   results, status, remote, lastRun, origin, log>>

Next ==
    \/ \E creds \in [CredentialFields -> {"", "x"}] : Construct(creds)
    \/ Simulate
    \/ MeasureLocal
    \/ Submit
    \/ RemoteSettle
    \/ FirstStatus
    \/ Poll
    \/ Return

Spec == Init /\ [][Next]_vars

\* The remote job eventually reaches a terminal status, and the converter's
\* thread keeps running: it asks for the status and polls.
LiveSpec ==
    /\ Init /\ [][Next]_vars
    /\ WF_vars(RemoteSettle)
    /\ WF_vars(FirstStatus)
    /\ WF_vars(Poll)

---------------------------------------------------------------------------
(* several converters in one process *)

\* calls to simulate() the model follows
MaxRuns == 2

Instances == {"A", "B"}

Self(inst) == [t |-> "self", v |-> inst]

Credentials(host, user, access_token, project_id) ==
    [host |-> host, user |-> user, access_token |-> access_token,
     project_id |-> project_id]

\* the credential sets a converter is constructed with: none, all four, all
\* but project_id
InstanceCredentials ==
    {Credentials("", "", "", ""), Credentials("x", "x", "x", "x"),
     Credentials("x", "x", "x", "")}

\* the tapes a converter is constructed with
InstanceCircuits ==
    {[operations |-> <<Op("Hadamard", <<0>>)>>,
      measurements |-> <<MpOn("Counts", None)>>],
     [operations |-> <<Op("Hadamard", <<0>>), Op("CNOT", <<0, 1>>)>>,
      measurements |-> <<MpOn("Sample", None), Mp("State", None, <<>>)>>],
     [operations |-> <<Op("S", <<0>>), Op("PauliX", <<1>>)>>,
      measurements |-> <<Mp("Probs", None, <<>>)>>]}

\* no converter constructed yet
InitInstances ==
    /\ converters = [inst \in Instances |-> None]
    /\ calls = <<>>
    /\ circuit = None
    /\ credentials = None
    /\ currentClient = None
    /\ sf_circuit = None
    /\ diagnostics = <<>>
    /\ pc = "idle"
    /\ k = 0
    /\ results = <<>>
    /\ status = "none"
    /\ remote = "none"
    /\ lastRun = None
    /\ ret = None
    /\ origin = <<>>
    /\ log = <<>>

\* inst = PennylaneConverter(c, host=..., user=..., access_token=...,
\* project_id=...): the object keeps its tape, the client goes to the
\* session-wide Main.currentClient
ConstructInstance(inst, c, creds) ==
    /\ pc \in {"idle", "done"}
    /\ converters[inst] = None
    /\ converters' = [converters EXCEPT ![inst] = [circuit |-> c, credentials |-> creds]]
    /\ currentClient' = ClientFor(creds)
    /\ UNCHANGED <<calls, circuit, credentials, sf_circuit, diagnostics, pc, k,
                   results, status, remote, lastRun, ret, origin, log>>

\* inst.simulate(): convert_circuit(self.circuit), then measure_final_state
\* up to its first measure() call.  circuit and credentials are those of the
\* converter whose simulate() is running.
SimulateInstance(inst) ==
    /\ pc \in {"idle", "done"}
    /\ converters[inst] # None
    /\ Len(log) < MaxRuns
    /\ circuit' = converters[inst].circuit
    /\ credentials' = converters[inst].credentials
    /\ LET out == ConvertCircuit(converters[inst].circuit)
       IN  /\ sf_circuit' = out.sf_circuit
           /\ diagnostics' = out.diagnostics
           /\ origin' = out.origin
    /\ pc' = "measure"
    /\ k' = 1
    /\ results' = <<>>
    /\ log' = Append(log, Call("simulate", Self(inst)))
    /\ calls' = <<>>
    /\ UNCHANGED <<converters, currentClient, status, remote, lastRun, ret>>

NextInstances ==
    \/ \E inst \in Instances, c \in InstanceCircuits, creds \in InstanceCredentials :
          ConstructInstance(inst, c, creds)
    \/ \E inst \in Instances : SimulateInstance(inst)
    \/ MeasureLocal
    \/ Submit
    \/ RemoteSettle
    \/ FirstStatus
    \/ Poll
    \/ Return

SpecInstances == InitInstances /\ [][NextInstances]_vars

---------------------------------------------------------------------------
(* get_circuit_as_dictionary called on its own *)

\* instructions of the circuit get_circuit_as_dictionary reads
MaxInstructions == 3

\* the instructions the session's circuit is drawn from
InstructionSamples ==
    {Gate("hadamard", <<W(1)>>), Gate("control_x", <<W(1), W(2)>>),
     Readout(1, 1), Readout(2, 2), Unclassified}

\* Main.sf_circuit when get_circuit_as_dictionary is called
InitIntrospect ==
    /\ sf_circuit \in {QuantumCircuit(2, 2, instructions) :
                         instructions \in SeqsUpTo(InstructionSamples, MaxInstructions)}
    /\ circuit = EmptyCircuit
    /\ credentials = None
    /\ currentClient = None
    /\ diagnostics = <<>>
    /\ pc = "converted"
    /\ k = 0
    /\ results = <<>>
    /\ status = "none"
    /\ remote = "none"
    /\ lastRun = None
    /\ ret = None
    /\ origin = <<>>
    /\ log = <<>>
    /\ converters = None
    /\ calls = <<>>

\* converter.get_circuit_as_dictionary()
CallGetCircuitAsDictionary ==
    /\ pc = "converted"
    /\ LET out == IntrospectLoop(sf_circuit.instructions, 1, Unbound, <<>>)
       IN  ret' = IF out.raised THEN [error |-> "UnboundLocalError"]
                  ELSE [value |-> out.ops]
    /\ pc' = "introspected"
    /\ log' = Append(log, Call("get_circuit_as_dictionary", None))
    /\ UNCHANGED <<calls, converters, circuit, credentials, currentClient, sf_circuit,
                   diagnostics, k, results, status, remote, lastRun, origin>>

NextIntrospect == CallGetCircuitAsDictionary

SpecIntrospect == InitIntrospect /\ [][NextIntrospect]_vars

---------------------------------------------------------------------------
(* Claims *)

\* the source operations that have an instruction template
Translatable(c) == {i \in 1..Len(c.operations) : HasTemplate(c.operations[i].name)}

\* C1: the instructions convert_circuit emits are the source operations that
\* have a template, each exactly once and in the source's order: as many
\* instructions as such operations, their origins exactly those operations,
\* strictly increasing, each instruction the template of its origin.
C1_TranslatableSubsequence ==
    pc = "converted" =>
        LET ops == circuit.operations
            emitted == sf_circuit.instructions
        IN  /\ Len(emitted) = Cardinality(Translatable(circuit))
            /\ Len(origin) = Len(emitted)
            /\ Range(origin) = Translatable(circuit)
            /\ \A i, j \in 1..Len(origin) : i < j => origin[i] < origin[j]
            /\ \A j \in 1..Len(emitted) :
                 /\ emitted[j].kind = "Gate"
                 /\ emitted[j].fn = SNOWFLURRY_OPERATION_MAP[ops[origin[j]].name].fn

\* C1 witness: a skipped operation followed by a translated one.
C1_Witness ==
    /\ pc = "converted"
    /\ Len(circuit.operations) = 2
    /\ ~HasTemplate(circuit.operations[1].name)
    /\ HasTemplate(circuit.operations[2].name)
    /\ Len(sf_circuit.instructions) = 1
    /\ origin = <<2>>

\* C2: every emitted instruction references exactly the wires of its source
\* operation, each shifted by +1: as many wire arguments as source wires,
\* and the same wires.
C2_WiresShiftedByOne ==
    pc = "converted" =>
        \A j \in 1..Len(sf_circuit.instructions) :
            LET src == circuit.operations[origin[j]].wires
                ws == WireArgs(sf_circuit.instructions[j].args)
            IN  /\ Len(ws) = Len(src)
                /\ Range(ws) = {src[i] + 1 : i \in DOMAIN src}

\* the Readout instructions of circuit c on qubit q
ReadoutsOn(c, q) ==
    SelectSeq(c.instructions, LAMBDA inst : IsReadout(inst) /\ inst.connected_qubit = q)

\* C3: after two apply_single_readout(w) calls in a row the circuit holds
\* exactly one Readout for that wire.
C3_SingleReadoutIdempotent ==
    LET n == Len(log)
    IN  (/\ n >= 2
         /\ log[n].call = "apply_single_readout"
         /\ log[n - 1] = log[n])
        => Len(ReadoutsOn(sf_circuit, log[n].arg.v + 1)) = 1

\* C4: remove_readouts returns a circuit with the same qubit and bit counts
\* whose instructions are the non-Readout instructions of the current
\* circuit, in order.
C4_RemoveReadoutsStrips ==
    (Len(log) >= 1 /\ log[Len(log)].call = "remove_readouts")
        => ret = QuantumCircuit(sf_circuit.qubit_count, sf_circuit.bit_count,
                                NonReadouts(sf_circuit.instructions))

\* C5: the circuit handed to the statevector simulation for a State
\* measurement holds no Readout.
C5_StateSimulatedWithoutReadouts ==
    (lastRun # None /\ lastRun.fn = "simulate" /\ lastRun.by = "State")
        => Readouts(lastRun.circuit.instructions) = <<>>

\* C6: when measure() starts on a measurement, the circuit holds no Readout
\* of an earlier measurement.
C6_FreshReadoutConfiguration ==
    Measuring => Readouts(sf_circuit.instructions) = <<>>

\* C7: handling a Probabilities measurement leaves the target circuit
\* (instructions, qubit count, bit count) as it was.
C7_ProbabilitiesLeaveCircuit ==
    [][(Measuring /\ Current.kind = "Probs") => sf_circuit' = sf_circuit]_vars

\* C7 witness: a Probabilities measurement on a wire subset was handled on a
\* circuit that holds readouts.
C7_Witness ==
    \E i \in 1..Len(results) :
        /\ circuit.measurements[i].kind = "Probs"
        /\ circuit.measurements[i].wires # <<>>
        /\ results[i].value = "probs"
        /\ HasReadout(sf_circuit)

\* C8: once a job is submitted, if its status eventually becomes terminal
\* and the converter keeps polling, measure() leaves the polling loop.
C8_PollingTerminates ==
    (pc \in {"submitted", "polling"}) ~> (pc = "measure")

\* C8 witness: inside the loop, the last status seen was pending and the job
\* has since failed.
C8_Witness ==
    /\ pc = "polling"
    /\ status = "pending"
    /\ remote = "failed"

\* C9: a measurement whose job ended "failed" ends in a remote-execution
\* failure that carries the job identifier, not in a value.
C9_FailedJobIsError ==
    \A i \in 1..Len(results) :
        results[i].status = "failed" =>
            /\ results[i].value = "RemoteExecutionFailure"
            /\ results[i].circuitID = i

\* C10: after a measurement whose job ended "failed", simulate() evaluates no
\* further measurement and returns no result.
C10_FailureAbortsSimulate ==
    \A i \in 1..Len(results) :
        results[i].status = "failed" => (Len(results) = i /\ pc # "done")

\* the measurement kinds measure() has a handler for
HandledKinds == {"Counts", "Sample", "Probs", "Expval", "State"}

\* C11: a measurement of a kind without a handler ends in an explicit
\* unsupported-measurement error: measure() returns no value for it, neither
\* a "not implemented" marker nor the value of another kind's handler.
C11_UnsupportedMeasurementFails ==
    \A i \in 1..Len(results) :
        circuit.measurements[i].kind \notin HandledKinds =>
            results[i].value = "UnsupportedMeasurement"

Skipped(c) ==
    SelectSeq([i \in 1..Len(c.operations) |-> i], LAMBDA i : i \notin Translatable(c))

\* C13: for every unknown or unimplemented gate of the source circuit,
\* convert_circuit records exactly one diagnostic naming it (one diagnostic
\* per skipped gate, in order), emits nothing for it, and still emits every
\* supported gate.
C13_OneDiagnosticPerSkippedGate ==
    pc = "converted" =>
        /\ Len(diagnostics) = Len(Skipped(circuit))
        /\ \A j \in 1..Len(Skipped(circuit)) :
             j <= Len(diagnostics) =>
                diagnostics[j].name = circuit.operations[Skipped(circuit)[j]].name
        /\ Range(origin) \cap Range(Skipped(circuit)) = {}
        /\ Translatable(circuit) \subseteq Range(origin)

\* C14: after remove_readouts followed by apply_readouts with no observable,
\* the current circuit of N wires holds exactly N Readout instructions, one
\* per wire, and its non-Readout instructions are the converted ones in
\* their order.
C14_RemoveThenApplyGivesNReadouts ==
    LET n == Len(log)
    IN  (/\ n >= 2
         /\ log[n - 1].call = "remove_readouts"
         /\ log[n] = Call("apply_readouts", None))
        => /\ Len(Readouts(sf_circuit.instructions)) = sf_circuit.qubit_count
           /\ \A q \in 1..sf_circuit.qubit_count : Len(ReadoutsOn(sf_circuit, q)) = 1
           /\ NonReadouts(sf_circuit.instructions)
                 = ConvertCircuit(circuit).sf_circuit.instructions

\* C15: during simulate(), every Readout of the target circuit is on a
\* 1-based wire index w with 1 <= w <= qubit_count, and w - 1 is a wire of
\* the caller's circuit.
C15_ReadoutWithinCircuit ==
    pc \in {"measure", "submitted", "polling", "done"} =>
        \A j \in 1..Len(sf_circuit.instructions) :
            LET inst == sf_circuit.instructions[j]
            IN  IsReadout(inst) =>
                    /\ 1 <= inst.connected_qubit
                    /\ inst.connected_qubit <= sf_circuit.qubit_count
                    /\ inst.connected_qubit - 1
                          \in Range(OpWires(circuit)) \cup Range(MeasWires(circuit))

\* the converter whose simulate() call is running, or ran last
Running == converters[log[Len(log)].arg.v]

\* C16: whether the Counts and Sample measurements of a converter run
\* remotely or locally is determined by the four credentials that converter
\* was constructed with, whatever other converter was constructed in between.
C16_ContextBelongsToInstance ==
    /\ pc \in {"submitted", "polling"} => RemoteEnabled(Running.credentials)
    /\ \A i \in 1..Len(results) :
         IsShotMeasurement(circuit.measurements[i]) =>
            ((results[i].status # "none") <=> RemoteEnabled(Running.credentials))

\* C17: a simulate() call begins its first measurement on a circuit made of
\* the instructions translated from its own source circuit only: sized by
\* its own wires, no Readout, one gate per translatable operation of its own
\* tape, in order.
C17_CircuitRebuiltPerCall ==
    (pc = "measure" /\ k = 1) =>
        LET ops == circuit.operations
            emitted == sf_circuit.instructions
        IN  /\ sf_circuit.qubit_count = Len(OpWires(circuit))
            /\ Readouts(emitted) = <<>>
            /\ Len(emitted) = Cardinality(Translatable(circuit))
            /\ Len(origin) = Len(emitted)
            /\ \A i, j \in 1..Len(origin) : i < j => origin[i] < origin[j]
            /\ \A j \in 1..Len(emitted) :
                 /\ origin[j] \in Translatable(circuit)
                 /\ emitted[j] = FormatGate(ops[origin[j]])

\* C17 witness: the second simulate() call, of the other converter, begins
\* after the first call left readouts in the session's circuit.
C17_Witness ==
    /\ pc = "measure"
    /\ k = 1
    /\ Len(log) = 2
    /\ log[1] # log[2]
    /\ lastRun # None
    /\ lastRun.fn = "simulate_shots"
    /\ Readouts(lastRun.circuit.instructions) # <<>>
    /\ sf_circuit.instructions # <<>>

\* the values the handlers of measure() return
HandlerValues == {"counts", "samples", "remote_result", "probs", "expval", "state"}

\* C18: an Expval measurement whose observable is absent or has no matrix
\* produces no measurement value: neither an expectation scalar nor what
\* another kind's handler returns.
C18_ExpvalWithoutMatrixGivesNoValue ==
    \A i \in 1..Len(results) :
        LET mp == circuit.measurements[i]
        IN  (mp.kind = "Expval" /\ (mp.obs = None \/ ~mp.obs.has_matrix))
                => results[i].value \notin HandlerValues

\* C19: get_circuit_as_dictionary returns one entry per instruction, in
\* order, the i-th describing the i-th instruction (a gate with its wires, a
\* Readout with its wire); with an instruction it cannot classify the call
\* ends in an error, never in a list.
C19_OneEntryPerInstruction ==
    pc = "introspected" =>
        LET instructions == sf_circuit.instructions
        IN  IF \E i \in 1..Len(instructions) :
                  instructions[i].kind \notin {"Gate", "Readout"}
            THEN "error" \in DOMAIN ret
            ELSE /\ "value" \in DOMAIN ret
                 /\ Len(ret.value) = Len(instructions)
                 /\ \A i \in 1..Len(instructions) :
                      LET inst == instructions[i]
                      IN  IF inst.kind = "Readout"
                          THEN ret.value[i] = [gate |-> "Readout",
                                               connected_qubits |-> <<inst.connected_qubit>>]
                          ELSE ret.value[i] = [gate |-> inst.fn,
                                               connected_qubits |-> WireArgs(inst.args)]

\* C20: within one simulate() call, whatever measurements were handled, the
\* non-Readout instructions of the target circuit are the instructions
\* convert_circuit produced, in the same order.
C20_DispatchKeepsGates ==
    pc \in {"measure", "submitted", "polling", "done"} =>
        NonReadouts(sf_circuit.instructions)
            = ConvertCircuit(circuit).sf_circuit.instructions

\* C20 witness: two measurements were handled, the first a local Counts that
\* pushed readouts behind the gates of the circuit.
C20_Witness ==
    /\ pc = "done"
    /\ Len(results) = 2
    /\ results[1].value = "counts"
    /\ Len(origin) >= 2
    /\ Readouts(sf_circuit.instructions) # <<>>

\* the calls made to the remote service for measurement number m, in order
CallsOf(m) == SelectSeq(calls, LAMBDA c : c.mp = m)

\* measurement number m is or was handled on the remote path
HandledRemotely(m) ==
    \/ m <= Len(results) /\ results[m].status # "none"
    \/ pc \in {"submitted", "polling"} /\ k = m

\* C21: on the remote path the calls of one measurement are ordered submit,
\* status queries, result: the job is submitted exactly once and first,
\* get_result is called at most once, last, and right after a status query
\* that returned "succeeded" (never after "pending" or "failed"); the
\* measurements are served one after the other.
C21_SubmitStatusResultOrder ==
    /\ \A i, j \in 1..Len(calls) : i < j => calls[i].mp <= calls[j].mp
    /\ \A m \in 1..Len(circuit.measurements) :
         LET cs == CallsOf(m)
             submits == SelectSeq(cs, LAMBDA c : c.call = "submit_circuit")
             fetches == SelectSeq(cs, LAMBDA c : c.call = "get_result")
         IN  /\ Len(submits) = (IF HandledRemotely(m) THEN 1 ELSE 0)
             /\ cs # <<>> => cs[1].call = "submit_circuit"
             /\ Len(fetches) <= 1
             /\ \A j \in 1..Len(cs) :
                  cs[j].call = "get_result" =>
                     /\ j = Len(cs)
                     /\ j > 1
                     /\ cs[j - 1] = RemoteCall("get_status", m, "succeeded")
             /\ (m <= Len(results) /\ results[m].status \in {"pending", "failed"})
                   => fetches = <<>>

\* C21 witness: two measurements were served remotely; the first job was
\* seen pending, then succeeded, and its result was fetched; the second was
\* seen to fail.
C21_Witness ==
    /\ Len(results) = 2
    /\ CallsOf(1) = <<RemoteCall("submit_circuit", 1, "none"),
                      RemoteCall("get_status", 1, "pending"),
                      RemoteCall("get_status", 1, "succeeded"),
                      RemoteCall("get_result", 1, "none")>>
    /\ results[2].status = "failed"
    /\ Len(CallsOf(2)) >= 2

=============================================================================
